---- MODULE Spec2Model ----
(***************************************************************************)
(* Sender-key group cipher (group_cipher.rs): group_encrypt,               *)
(* group_decrypt, get_sender_key, process_sender_key_distribution_message  *)
(* and create_sender_key_distribution_message, over a SenderKeyStore.      *)
(*                                                                         *)
(* The record, state, chain-key and message types (crate::sender_keys,     *)
(* crate::protocol), the primitives (crate::crypto, crate::curve) and the  *)
(* limits (crate::consts) are modelled from the specification text.        *)
(***************************************************************************)
EXTENDS Integers, Sequences, FiniteSets, TLC

\* ------------------------------------------------------------------ bounds
\* consts::MAX_FORWARD_JUMPS and the capacity of the skipped-key cache,
\* scaled down: the cache holds no more than one jump of the greatest
\* length skips, so that two jumps overflow it.
MAX_FORWARD_JUMPS == 2
MAX_MESSAGE_KEYS == 2
\* most states a record is grown to by process_sender_key_distribution_message
MaxStates == 2
\* most empty plaintexts handed to group_encrypt
MaxEmpty == 1

\* highest chain iteration a sender is driven to: one past the first
\* iteration that is out of reach of a recipient still at iteration 0
MaxIter == MAX_FORWARD_JUMPS + 2

\* ------------------------------------------------------------ input domains
\* SenderKeyName values: the name a sending device keeps its own sender key
\* under, and the name a receiving device keeps that sender's key under.
Senders == {"alice"}
Recipients == {"bob"}
Names == Senders \cup Recipients
\* A u32 as its top bit and its low 31 bits (hi * 2^31 + lo).
U32(hi, lo) == [hi |-> hi, lo |-> lo]
\* the u32 read as a signed 32-bit integer instead of shifted
Shr1_cast_signed(v) == IF v.hi = 1 THEN v.lo - 2147483647 - 1 ELSE v.lo

\* u32 >> 1
Shr1(v) == v.hi * 1073741824 + v.lo \div 2
\* values of the 32-byte chain seed csprng.gen() can return
Roots == {1, 2}
\* key pairs curve::KeyPair::generate can return
KeyPairs == {1, 2}
\* what the csprng yields in one create call, <<u32, seed, key pair>>:
\* the u32 is 1 in one draw and 2^32 - 1 in the other
Draws == {<<U32(0, 1), 1, 1>>, <<U32(1, 2147483647), 2, 2>>}
\* plaintexts handed to group_encrypt: the empty one and a non-empty one
Plaintexts == {<<>>, <<7>>}
\* what the network may overwrite the ciphertext bytes of a message with
Tampered == <<0>>

\* Option<T>: None is <<>>, Some(x) is <<x>>
None == <<>>
Some(x) == <<x>>
IsSome(o) == Len(o) = 1
Unwrap(o) == o[1]

\* ------------------------------------------------- chain key / message key
\* A seed is identified by the random root it descends from and the number
\* of one-way derivation steps applied to it.
SenderChainKey(iteration, seed) == [iteration |-> iteration, seed |-> seed]

\* SenderChainKey::next: iteration + 1, seed derived one step further
next(ck) ==
    SenderChainKey(ck.iteration + 1,
                   [root |-> ck.seed.root, step |-> ck.seed.step + 1])

\* SenderChainKey::sender_message_key: derived from the seed, same iteration
sender_message_key(ck) == [iteration |-> ck.iteration, from |-> ck.seed]

cipher_key(mk) == <<"cipher", mk.from>>
iv(mk) == <<"iv", mk.from>>

\* ------------------------------------------------------------- primitives
aes_256_cbc_encrypt(ptext, key, ivv) == [key |-> key, iv |-> ivv, data |-> ptext]

\* Under the right key and iv the plaintext comes back; under any other
\* the padding check fails (the chance that garbage is well padded is left
\* out).
aes_256_cbc_decrypt(ctext, key, ivv) ==
    IF ctext.key = key /\ ctext.iv = ivv
    THEN [ok |-> TRUE, ptext |-> ctext.data]
    ELSE [ok |-> FALSE, ptext |-> <<>>]

public_key(kp) == [pub |-> kp]
private_key(kp) == [priv |-> kp]

\* SenderKeyMessage::new: the signature covers (key id, iteration, ciphertext)
SenderKeyMessage(key_id, iteration, ciphertext, signing_key) ==
    [key_id |-> key_id, iteration |-> iteration, ciphertext |-> ciphertext,
     signature |-> [by |-> signing_key.priv,
                    over |-> <<key_id, iteration, ciphertext>>]]

verify_signature(skm, signing_key) ==
    /\ skm.signature.by = signing_key.pub
    /\ skm.signature.over = <<skm.key_id, skm.iteration, skm.ciphertext>>

SenderKeyDistributionMessage(id, iteration, seed, signing_key) ==
    [id |-> id, iteration |-> iteration, chain_key |-> seed,
     signing_key |-> signing_key]

\* ------------------------------------------------------- SenderKeyState
\* used and since are history fields: the messages group_decrypt has
\* returned a plaintext for under this state, and the iteration the state
\* was made at.
SenderKeyState(id, iteration, seed, pub, priv) ==
    [id |-> id, chain |-> SenderChainKey(iteration, seed),
     pub |-> pub, priv |-> priv, keys |-> <<>>, used |-> {},
     since |-> iteration]

set_sender_chain_key(state, ck) == [state EXCEPT !.chain = ck]

\* add_sender_message_key that never evicts
add_sender_message_key_unbounded(state, mk) ==
    [state EXCEPT !.keys = Append(state.keys, mk)]

\* append, then evict the oldest entries beyond the capacity
add_sender_message_key(state, mk) ==
    LET all == Append(state.keys, mk)
        drop == IF Len(all) > MAX_MESSAGE_KEYS THEN Len(all) - MAX_MESSAGE_KEYS ELSE 0
    IN  [state EXCEPT !.keys = SubSeq(all, drop + 1, Len(all))]

KeyIndex(state, iteration) ==
    LET hits == {i \in 1..Len(state.keys) : state.keys[i].iteration = iteration}
    IN  IF hits = {} THEN 0 ELSE CHOOSE i \in hits : \A j \in hits : i <= j

\* remove_sender_message_key: Some(key) and the entry removed, or None
remove_sender_message_key(state, iteration) ==
    LET i == KeyIndex(state, iteration)
    IN  IF i = 0 THEN [smk |-> None, state |-> state]
        ELSE [smk |-> Some(state.keys[i]),
              state |-> [state EXCEPT !.keys =
                            SubSeq(state.keys, 1, i - 1)
                            \o SubSeq(state.keys, i + 1, Len(state.keys))]]

\* ------------------------------------------------------- SenderKeyRecord
\* a record is the sequence of its states, most recently added first
new_empty == <<>>
is_empty(record) == Len(record) = 0

\* index of the state with this id nearest the front, 0 when there is none
sender_key_state_for_keyid(record, key_id) ==
    LET hits == {i \in 1..Len(record) : record[i].id = key_id}
    IN  IF hits = {} THEN 0 ELSE CHOOSE i \in hits : \A j \in hits : i <= j

add_sender_key_state(record, id, iteration, seed, pub, priv) ==
    <<SenderKeyState(id, iteration, seed, pub, priv)>> \o record

set_sender_key_state(record, id, iteration, seed, pub, priv) ==
    add_sender_key_state(new_empty, id, iteration, seed, pub, priv)

\* ------------------------------------------------------------ group cipher
Ok == "Ok"
Outcome(res, stored, out) ==
    [res |-> res, stored |-> stored, out |-> out, exp |-> -1, got |-> -1]

\* group_encrypt with the chain key advanced before the message is built:
\* the message names the iteration after the one whose key encrypted it
group_encrypt_built_after_advance(loaded, plaintext) ==
    IF ~IsSome(loaded) THEN Outcome("InvalidSenderKeyId", None, None)
    ELSE LET record == Unwrap(loaded) IN
    IF is_empty(record) THEN Outcome("NoSenderKeyState", None, None)
    ELSE LET sender_key_state == record[1]
             sender_key == sender_message_key(sender_key_state.chain)
             ciphertext == aes_256_cbc_encrypt(plaintext, cipher_key(sender_key),
                                               iv(sender_key))
         IN
    IF ~IsSome(sender_key_state.priv)
    THEN Outcome("SenderKeySigningKeyMissing", None, None)
    ELSE LET advanced == set_sender_chain_key(sender_key_state,
                                              next(sender_key_state.chain))
             skm == SenderKeyMessage(sender_key_state.id, advanced.chain.iteration,
                                     ciphertext, Unwrap(sender_key_state.priv))
         IN  Outcome(Ok, Some([record EXCEPT ![1] = advanced]), Some(skm))

\* group_encrypt storing the record with the chain key left where it was
group_encrypt_not_advancing(loaded, plaintext) ==
    IF ~IsSome(loaded) THEN Outcome("InvalidSenderKeyId", None, None)
    ELSE LET record == Unwrap(loaded) IN
    IF is_empty(record) THEN Outcome("NoSenderKeyState", None, None)
    ELSE LET sender_key_state == record[1]
             sender_key == sender_message_key(sender_key_state.chain)
             ciphertext == aes_256_cbc_encrypt(plaintext, cipher_key(sender_key),
                                               iv(sender_key))
         IN
    IF ~IsSome(sender_key_state.priv)
    THEN Outcome("SenderKeySigningKeyMissing", None, None)
    ELSE LET skm == SenderKeyMessage(sender_key_state.id, sender_key.iteration,
                                     ciphertext, Unwrap(sender_key_state.priv))
         IN  Outcome(Ok, Some(record), Some(skm))

\* group_encrypt advancing and storing the chain key before it asks for
\* the private signing key
group_encrypt_advancing_unsigned(loaded, plaintext) ==
    IF ~IsSome(loaded) THEN Outcome("InvalidSenderKeyId", None, None)
    ELSE LET record == Unwrap(loaded) IN
    IF is_empty(record) THEN Outcome("NoSenderKeyState", None, None)
    ELSE LET sender_key_state == record[1]
             sender_key == sender_message_key(sender_key_state.chain)
             ciphertext == aes_256_cbc_encrypt(plaintext, cipher_key(sender_key),
                                               iv(sender_key))
             advanced == set_sender_chain_key(sender_key_state,
                                              next(sender_key_state.chain))
         IN
    IF ~IsSome(sender_key_state.priv)
    THEN Outcome("SenderKeySigningKeyMissing",
                 Some([record EXCEPT ![1] = advanced]), None)
    ELSE LET skm == SenderKeyMessage(sender_key_state.id, sender_key.iteration,
                                     ciphertext, Unwrap(sender_key_state.priv))
         IN  Outcome(Ok, Some([record EXCEPT ![1] = advanced]), Some(skm))

\* group_encrypt: stored is the record handed to store_sender_key (None
\* when it is not called), out the message returned.
group_encrypt(loaded, plaintext) ==
    IF ~IsSome(loaded) THEN Outcome("InvalidSenderKeyId", None, None)
    ELSE LET record == Unwrap(loaded) IN
    IF is_empty(record) THEN Outcome("NoSenderKeyState", None, None)
    ELSE LET sender_key_state == record[1]
             sender_key == sender_message_key(sender_key_state.chain)
             ciphertext == aes_256_cbc_encrypt(plaintext, cipher_key(sender_key),
                                               iv(sender_key))
         IN
    IF ~IsSome(sender_key_state.priv)
    THEN Outcome("SenderKeySigningKeyMissing", None, None)
    ELSE LET skm == SenderKeyMessage(sender_key_state.id, sender_key.iteration,
                                     ciphertext, Unwrap(sender_key_state.priv))
             advanced == set_sender_chain_key(sender_key_state,
                                              next(sender_key_state.chain))
         IN  Outcome(Ok, Some([record EXCEPT ![1] = advanced]), Some(skm))

\* the while loop without its add_sender_message_key: the chain key is
\* stepped up to the target and the keys passed over are lost
RECURSIVE WalkTo_caching_nothing(_, _, _)
WalkTo_caching_nothing(state, ck, iteration) ==
    IF ck.iteration < iteration
    THEN WalkTo_caching_nothing(state, next(ck), iteration)
    ELSE [state |-> state, ck |-> ck]

\* the while loop running while iteration() <= target: the key of the
\* target is cached too and the chain key ends one step further
RECURSIVE WalkTo_caching_target(_, _, _)
WalkTo_caching_target(state, ck, iteration) ==
    IF ck.iteration <= iteration
    THEN WalkTo_caching_target(add_sender_message_key(state, sender_message_key(ck)),
                               next(ck), iteration)
    ELSE [state |-> state, ck |-> ck]

\* the while loop of get_sender_key: cache the key of every iteration
\* below the target, stepping the chain key up to it
RECURSIVE WalkTo(_, _, _)
WalkTo(state, ck, iteration) ==
    IF ck.iteration < iteration
    THEN WalkTo(add_sender_message_key(state, sender_message_key(ck)),
                next(ck), iteration)
    ELSE [state |-> state, ck |-> ck]

\* get_sender_key with the two fields of DuplicatedMessage exchanged
get_sender_key_duplicate_swapped(state, iteration) ==
    LET sender_chain_key == state.chain IN
    IF sender_chain_key.iteration > iteration
    THEN LET r == remove_sender_message_key(state, iteration) IN
         IF IsSome(r.smk)
         THEN [res |-> Ok, key |-> r.smk, state |-> r.state, exp |-> -1, got |-> -1]
         ELSE [res |-> "DuplicatedMessage", key |-> None, state |-> state,
               exp |-> iteration, got |-> sender_chain_key.iteration]
    ELSE LET jump == iteration - sender_chain_key.iteration IN
         IF jump > MAX_FORWARD_JUMPS
         THEN [res |-> "InvalidMessage", key |-> None, state |-> state,
               exp |-> -1, got |-> -1]
         ELSE LET w == WalkTo(state, sender_chain_key, iteration) IN
              [res |-> Ok, key |-> Some(sender_message_key(w.ck)),
               state |-> set_sender_chain_key(w.state, next(w.ck)),
               exp |-> -1, got |-> -1]

\* get_sender_key refusing a jump of exactly MAX_FORWARD_JUMPS
get_sender_key_jump_at_limit_refused(state, iteration) ==
    LET sender_chain_key == state.chain IN
    IF sender_chain_key.iteration > iteration
    THEN LET r == remove_sender_message_key(state, iteration) IN
         IF IsSome(r.smk)
         THEN [res |-> Ok, key |-> r.smk, state |-> r.state, exp |-> -1, got |-> -1]
         ELSE [res |-> "DuplicatedMessage", key |-> None, state |-> state,
               exp |-> sender_chain_key.iteration, got |-> iteration]
    ELSE LET jump == iteration - sender_chain_key.iteration IN
         IF jump >= MAX_FORWARD_JUMPS
         THEN [res |-> "InvalidMessage", key |-> None, state |-> state,
               exp |-> -1, got |-> -1]
         ELSE LET w == WalkTo(state, sender_chain_key, iteration) IN
              [res |-> Ok, key |-> Some(sender_message_key(w.ck)),
               state |-> set_sender_chain_key(w.state, next(w.ck)),
               exp |-> -1, got |-> -1]

\* get_sender_key reading the cached key without removing it
get_sender_key_keeping_cached(state, iteration) ==
    LET sender_chain_key == state.chain IN
    IF sender_chain_key.iteration > iteration
    THEN LET r == remove_sender_message_key(state, iteration) IN
         IF IsSome(r.smk)
         THEN [res |-> Ok, key |-> r.smk, state |-> state, exp |-> -1, got |-> -1]
         ELSE [res |-> "DuplicatedMessage", key |-> None, state |-> state,
               exp |-> sender_chain_key.iteration, got |-> iteration]
    ELSE LET jump == iteration - sender_chain_key.iteration IN
         IF jump > MAX_FORWARD_JUMPS
         THEN [res |-> "InvalidMessage", key |-> None, state |-> state,
               exp |-> -1, got |-> -1]
         ELSE LET w == WalkTo(state, sender_chain_key, iteration) IN
              [res |-> Ok, key |-> Some(sender_message_key(w.ck)),
               state |-> set_sender_chain_key(w.state, next(w.ck)),
               exp |-> -1, got |-> -1]

\* get_sender_key reporting an iteration behind the chain key, with no
\* cached key, as a message from the future
get_sender_key_past_as_invalid(state, iteration) ==
    LET sender_chain_key == state.chain IN
    IF sender_chain_key.iteration > iteration
    THEN LET r == remove_sender_message_key(state, iteration) IN
         IF IsSome(r.smk)
         THEN [res |-> Ok, key |-> r.smk, state |-> r.state, exp |-> -1, got |-> -1]
         ELSE [res |-> "InvalidMessage", key |-> None, state |-> state,
               exp |-> -1, got |-> -1]
    ELSE LET jump == iteration - sender_chain_key.iteration IN
         IF jump > MAX_FORWARD_JUMPS
         THEN [res |-> "InvalidMessage", key |-> None, state |-> state,
               exp |-> -1, got |-> -1]
         ELSE LET w == WalkTo(state, sender_chain_key, iteration) IN
              [res |-> Ok, key |-> Some(sender_message_key(w.ck)),
               state |-> set_sender_chain_key(w.state, next(w.ck)),
               exp |-> -1, got |-> -1]

\* get_sender_key: the key for the iteration and the state it leaves, or
\* the error
get_sender_key(state, iteration) ==
    LET sender_chain_key == state.chain IN
    IF sender_chain_key.iteration > iteration
    THEN LET r == remove_sender_message_key(state, iteration) IN
         IF IsSome(r.smk)
         THEN [res |-> Ok, key |-> r.smk, state |-> r.state, exp |-> -1, got |-> -1]
         ELSE [res |-> "DuplicatedMessage", key |-> None, state |-> state,
               exp |-> sender_chain_key.iteration, got |-> iteration]
    ELSE LET jump == iteration - sender_chain_key.iteration IN
         IF jump > MAX_FORWARD_JUMPS
         THEN [res |-> "InvalidMessage", key |-> None, state |-> state,
               exp |-> -1, got |-> -1]
         ELSE LET w == WalkTo(state, sender_chain_key, iteration) IN
              [res |-> Ok, key |-> Some(sender_message_key(w.ck)),
               state |-> set_sender_chain_key(w.state, next(w.ck)),
               exp |-> -1, got |-> -1]

\* group_decrypt with the signature verified after the key is resolved
group_decrypt_verifying_late(skm, loaded) ==
    IF ~IsSome(loaded) THEN Outcome("InvalidSenderKeyId", None, None)
    ELSE LET record == Unwrap(loaded)
             i == sender_key_state_for_keyid(record, skm.key_id)
         IN
    IF i = 0 THEN Outcome("InvalidSenderKeyId", None, None)
    ELSE LET k == get_sender_key(record[i], skm.iteration) IN
    IF k.res # Ok
    THEN [Outcome(k.res, None, None) EXCEPT !.exp = k.exp, !.got = k.got]
    ELSE IF ~verify_signature(skm, record[i].pub)
    THEN Outcome("SignatureValidationFailed", None, None)
    ELSE LET sender_key == Unwrap(k.key)
             d == aes_256_cbc_decrypt(skm.ciphertext, cipher_key(sender_key),
                                      iv(sender_key))
         IN
    IF ~d.ok THEN Outcome("InvalidCiphertext", None, None)
    ELSE Outcome(Ok,
                 Some([record EXCEPT ![i] =
                          [k.state EXCEPT !.used = @ \cup {skm}]]),
                 Some(d.ptext))

\* group_decrypt storing the record as soon as the key is resolved, before
\* the ciphertext is decrypted
group_decrypt_storing_early(skm, loaded) ==
    IF ~IsSome(loaded) THEN Outcome("InvalidSenderKeyId", None, None)
    ELSE LET record == Unwrap(loaded)
             i == sender_key_state_for_keyid(record, skm.key_id)
         IN
    IF i = 0 THEN Outcome("InvalidSenderKeyId", None, None)
    ELSE IF ~verify_signature(skm, record[i].pub)
    THEN Outcome("SignatureValidationFailed", None, None)
    ELSE LET k == get_sender_key(record[i], skm.iteration) IN
    IF k.res # Ok
    THEN [Outcome(k.res, None, None) EXCEPT !.exp = k.exp, !.got = k.got]
    ELSE LET sender_key == Unwrap(k.key)
             d == aes_256_cbc_decrypt(skm.ciphertext, cipher_key(sender_key),
                                      iv(sender_key))
         IN
    IF ~d.ok
    THEN Outcome("InvalidCiphertext", Some([record EXCEPT ![i] = k.state]), None)
    ELSE Outcome(Ok,
                 Some([record EXCEPT ![i] =
                          [k.state EXCEPT !.used = @ \cup {skm}]]),
                 Some(d.ptext))

\* group_decrypt writing the record back before it reports that the record
\* or the state is missing (an empty record when there was none)
group_decrypt_storing_on_miss(skm, loaded) ==
    IF ~IsSome(loaded) THEN Outcome("InvalidSenderKeyId", Some(new_empty), None)
    ELSE LET record == Unwrap(loaded)
             i == sender_key_state_for_keyid(record, skm.key_id)
         IN
    IF i = 0 THEN Outcome("InvalidSenderKeyId", Some(record), None)
    ELSE IF ~verify_signature(skm, record[i].pub)
    THEN Outcome("SignatureValidationFailed", None, None)
    ELSE LET k == get_sender_key(record[i], skm.iteration) IN
    IF k.res # Ok
    THEN [Outcome(k.res, None, None) EXCEPT !.exp = k.exp, !.got = k.got]
    ELSE LET sender_key == Unwrap(k.key)
             d == aes_256_cbc_decrypt(skm.ciphertext, cipher_key(sender_key),
                                      iv(sender_key))
         IN
    IF ~d.ok THEN Outcome("InvalidCiphertext", None, None)
    ELSE Outcome(Ok,
                 Some([record EXCEPT ![i] =
                          [k.state EXCEPT !.used = @ \cup {skm}]]),
                 Some(d.ptext))

\* group_decrypt moving the state it used to the front of the record
group_decrypt_promoting_state(skm, loaded) ==
    IF ~IsSome(loaded) THEN Outcome("InvalidSenderKeyId", None, None)
    ELSE LET record == Unwrap(loaded)
             i == sender_key_state_for_keyid(record, skm.key_id)
         IN
    IF i = 0 THEN Outcome("InvalidSenderKeyId", None, None)
    ELSE IF ~verify_signature(skm, record[i].pub)
    THEN Outcome("SignatureValidationFailed", None, None)
    ELSE LET k == get_sender_key(record[i], skm.iteration) IN
    IF k.res # Ok
    THEN [Outcome(k.res, None, None) EXCEPT !.exp = k.exp, !.got = k.got]
    ELSE LET sender_key == Unwrap(k.key)
             d == aes_256_cbc_decrypt(skm.ciphertext, cipher_key(sender_key),
                                      iv(sender_key))
         IN
    IF ~d.ok THEN Outcome("InvalidCiphertext", None, None)
    ELSE Outcome(Ok,
                 Some(<<[k.state EXCEPT !.used = @ \cup {skm}]>>
                      \o SubSeq(record, 1, i - 1)
                      \o SubSeq(record, i + 1, Len(record))),
                 Some(d.ptext))

\* group_decrypt: out is the plaintext returned
group_decrypt(skm, loaded) ==
    IF ~IsSome(loaded) THEN Outcome("InvalidSenderKeyId", None, None)
    ELSE LET record == Unwrap(loaded)
             i == sender_key_state_for_keyid(record, skm.key_id)
         IN
    IF i = 0 THEN Outcome("InvalidSenderKeyId", None, None)
    ELSE IF ~verify_signature(skm, record[i].pub)
    THEN Outcome("SignatureValidationFailed", None, None)
    ELSE LET k == get_sender_key(record[i], skm.iteration) IN
    IF k.res # Ok
    THEN [Outcome(k.res, None, None) EXCEPT !.exp = k.exp, !.got = k.got]
    ELSE LET sender_key == Unwrap(k.key)
             d == aes_256_cbc_decrypt(skm.ciphertext, cipher_key(sender_key),
                                      iv(sender_key))
         IN
    IF ~d.ok THEN Outcome("InvalidCiphertext", None, None)
    ELSE Outcome(Ok,
                 Some([record EXCEPT ![i] =
                          [k.state EXCEPT !.used = @ \cup {skm}]]),
                 Some(d.ptext))

\* process_sender_key_distribution_message starting the new state's chain
\* at iteration 0 whatever iteration the message carries
process_sender_key_distribution_message_at_zero(skdm, loaded) ==
    LET sender_key_record == IF IsSome(loaded) THEN Unwrap(loaded) ELSE new_empty
    IN  Outcome(Ok,
                Some(add_sender_key_state(sender_key_record, skdm.id, 0,
                                          skdm.chain_key, skdm.signing_key, None)),
                None)

\* process_sender_key_distribution_message making the new state the only
\* one, as create does on an empty record
process_sender_key_distribution_message_replacing(skdm, loaded) ==
    LET sender_key_record == IF IsSome(loaded) THEN Unwrap(loaded) ELSE new_empty
    IN  Outcome(Ok,
                Some(set_sender_key_state(sender_key_record, skdm.id, skdm.iteration,
                                          skdm.chain_key, skdm.signing_key, None)),
                None)

process_sender_key_distribution_message(skdm, loaded) ==
    LET sender_key_record == IF IsSome(loaded) THEN Unwrap(loaded) ELSE new_empty
    IN  Outcome(Ok,
                Some(add_sender_key_state(sender_key_record, skdm.id, skdm.iteration,
                                          skdm.chain_key, skdm.signing_key, None)),
                None)

\* create_sender_key_distribution_message without the is_empty test: a new
\* state is generated and stored on every call
create_sender_key_distribution_message_regenerating(loaded, rnd, root, kp) ==
    LET sender_key_record == IF IsSome(loaded) THEN Unwrap(loaded) ELSE new_empty
        sender_key_id == Shr1(rnd)
        record == set_sender_key_state(sender_key_record, sender_key_id, 0,
                                       [root |-> root, step |-> 0],
                                       public_key(kp), Some(private_key(kp)))
        state == record[1]
    IN  Outcome(Ok,
                Some(record),
                Some(SenderKeyDistributionMessage(state.id, state.chain.iteration,
                                                  state.chain.seed, state.pub)))

\* create_sender_key_distribution_message: rnd, root and kp are what the
\* csprng yields for the id, the seed and the key pair
create_sender_key_distribution_message(loaded, rnd, root, kp) ==
    LET sender_key_record == IF IsSome(loaded) THEN Unwrap(loaded) ELSE new_empty
        fresh == is_empty(sender_key_record)
        sender_key_id == Shr1(rnd)
        record == IF fresh
                  THEN set_sender_key_state(sender_key_record, sender_key_id, 0,
                                            [root |-> root, step |-> 0],
                                            public_key(kp), Some(private_key(kp)))
                  ELSE sender_key_record
        state == record[1]
    IN  Outcome(Ok,
                IF fresh THEN Some(record) ELSE None,
                Some(SenderKeyDistributionMessage(state.id, state.chain.iteration,
                                                  state.chain.seed, state.pub)))

\* ------------------------------------------------------------------ state
VARIABLES
    store,   \* the SenderKeyStore: SenderKeyName -> Option<SenderKeyRecord>
    sent,    \* the SenderKeyMessages group_encrypt has returned
    last,    \* the call made last: what it was given, the record the
             \* store held under its name when it began, what it returned
    excl,    \* whether the store admits one call per name at a time
    thr,     \* per caller thread: where its group_encrypt stands
    log      \* the group_encrypt calls finished by the threads

vars == <<store, sent, last, excl, thr, log>>

\* caller threads of the interleaved specification
Threads == {1, 2}
Idle == [pc |-> "idle", name |-> "alice", plaintext |-> <<>>, loaded |-> None,
         at |-> 0]

load_sender_key(name) == store[name]

\* store_sender_key, when the call reached it
store_sender_key(name, o) ==
    IF IsSome(o.stored) THEN [store EXCEPT ![name] = o.stored] ELSE store

\* iteration of the chain key of state i of the record under name, -1 if none
IterationAt(name, i) ==
    IF IsSome(store[name]) /\ i >= 1 /\ i <= Len(Unwrap(store[name]))
    THEN Unwrap(store[name])[i].chain.iteration ELSE -1

\* a call, the record it loaded, whether it called store_sender_key, and
\* its return value: Ok(out), or the error with its fields
Call(op, name, in, o) ==
    [op |-> op, name |-> name, in |-> in, before |-> store[name],
     stored |-> IsSome(o.stored), res |-> o.res, out |-> o.out,
     exp |-> o.exp, got |-> o.got]

Init ==
    /\ store = [n \in Names |-> None]
    /\ sent = {}
    /\ last = Call("none", "alice", None, Outcome(Ok, None, None))
    /\ excl = TRUE
    /\ thr = [t \in Threads |-> Idle]
    /\ log = {}

Create(name, draw) ==
    LET o == create_sender_key_distribution_message(load_sender_key(name),
                                                    draw[1], draw[2], draw[3])
    IN  /\ store' = store_sender_key(name, o)
        /\ last' = Call("create", name, Some(draw), o)
        /\ UNCHANGED <<sent, excl, thr, log>>

\* The distribution messages create has returned or would have returned
\* had it been called after each encryption (a call on a non-empty record
\* changes nothing in the store): a sender's record holds the one state
\* create made at iteration 0, moved on by group_encrypt alone.
Distributed ==
    UNION {IF IsSome(store[n])
           THEN LET state == Unwrap(store[n])[1] IN
                {SenderKeyDistributionMessage(
                     state.id, j, [root |-> state.chain.seed.root, step |-> j],
                     state.pub) : j \in 0..state.chain.iteration}
           ELSE {} : n \in Senders}

\* distribution messages that did not come from create: one of another
\* sender (another id, seed and key), and the first one create returned
\* with the seed replaced
Foreign ==
    {SenderKeyDistributionMessage(7, 0, [root |-> 3, step |-> 0], public_key(3))}
    \cup {[d EXCEPT !.chain_key.root = 3] : d \in {e \in Distributed : e.iteration = 0}}

Process(name, skdm) ==
    LET o == process_sender_key_distribution_message(skdm, load_sender_key(name))
    IN  /\ Len(Unwrap(o.stored)) <= MaxStates
        /\ store' = store_sender_key(name, o)
        /\ last' = Call("process", name, Some(skdm), o)
        /\ UNCHANGED <<sent, excl, thr, log>>

Encrypt(name, plaintext) ==
    LET o == group_encrypt(load_sender_key(name), plaintext)
    IN  /\ IterationAt(name, 1) < MaxIter
        /\ plaintext = <<>> =>
               Cardinality({m \in sent : m.ciphertext.data = <<>>}) < MaxEmpty
        /\ store' = store_sender_key(name, o)
        /\ sent' = IF o.res = Ok THEN sent \cup {Unwrap(o.out)} ELSE sent
        /\ last' = Call("encrypt", name, Some(plaintext), o)
        /\ UNCHANGED <<excl, thr, log>>

\* a message as the network may deliver it: as sent, or with its
\* ciphertext overwritten (the signature no longer covers it)
Deliverable ==
    sent \cup {[m EXCEPT !.ciphertext.data = Tampered] : m \in sent}

Decrypt(name, skm) ==
    LET o == group_decrypt(skm, load_sender_key(name))
    IN  /\ store' = store_sender_key(name, o)
        /\ last' = Call("decrypt", name, Some(skm), o)
        /\ UNCHANGED <<sent, excl, thr, log>>

Next ==
    \/ \E n \in Senders, draw \in Draws : Create(n, draw)
    \/ \E n \in Recipients, skdm \in Distributed \cup Foreign : Process(n, skdm)
    \/ \E n \in Names, p \in Plaintexts : Encrypt(n, p)
    \/ \E n \in Recipients, skm \in Deliverable : Decrypt(n, skm)

Spec == Init /\ [][Next]_vars

\* ------------------------------------------------- interleaved group_encrypt
\* group_encrypt in its two store calls: load_sender_key, and (the rest of
\* the function being a computation on the loaded record) store_sender_key.
\* With excl the store lets a thread load a name only when no other thread
\* is between its load and its store on that name.
InitRace ==
    /\ store = [n \in Names |-> None]
    /\ sent = {}
    /\ last = Call("none", "alice", None, Outcome(Ok, None, None))
    /\ excl \in BOOLEAN
    /\ thr = [t \in Threads |-> Idle]
    /\ log = {}

\* no thread is between its load and its store on the name
Free(name) == \A u \in Threads : ~(thr[u].pc = "loaded" /\ thr[u].name = name)

CreateRace(name, draw) ==
    /\ excl => Free(name)
    /\ Create(name, draw)

EncryptLoad(t, name, plaintext) ==
    /\ thr[t].pc = "idle"
    /\ excl => Free(name)
    /\ Cardinality(log) + Cardinality({u \in Threads : thr[u].pc = "loaded"})
           < MaxIter
    /\ plaintext = <<>> =>
           /\ Cardinality({m \in sent : m.ciphertext.data = <<>>}) < MaxEmpty
           /\ \A u \in Threads : thr[u].pc = "loaded" => thr[u].plaintext # <<>>
    /\ thr' = [thr EXCEPT ![t] = [pc |-> "loaded", name |-> name,
                                  plaintext |-> plaintext,
                                  loaded |-> load_sender_key(name),
                                  at |-> Cardinality(log)]]
    /\ UNCHANGED <<store, sent, last, excl, log>>

EncryptStore(t) ==
    LET o == group_encrypt(thr[t].loaded, thr[t].plaintext)
        name == thr[t].name
    IN  /\ thr[t].pc = "loaded"
        /\ store' = store_sender_key(name, o)
        /\ sent' = IF o.res = Ok THEN sent \cup {Unwrap(o.out)} ELSE sent
        /\ last' = [Call("encrypt", name, Some(thr[t].plaintext), o)
                        EXCEPT !.before = thr[t].loaded]
        /\ log' = log \cup {[n |-> Cardinality(log), at |-> thr[t].at,
                              name |-> name, loaded |-> thr[t].loaded,
                              res |-> o.res, out |-> o.out,
                              after |-> store_sender_key(name, o)[name]]}
        /\ thr' = [thr EXCEPT ![t] = Idle]
        /\ UNCHANGED excl

NextRace ==
    \/ \E n \in Senders, draw \in Draws : CreateRace(n, draw)
    \/ \E t \in Threads, n \in Senders, p \in Plaintexts : EncryptLoad(t, n, p)
    \/ \E t \in Threads : EncryptStore(t)

SpecRace == InitRace /\ [][NextRace]_vars

\* ------------------------------------------------------- long chains
\* One sender key driven far enough for two forward jumps of the greatest
\* length, delivered to a recipient as sent: the skipped-key cache
\* overflows.
DeepIter == 2 * MAX_FORWARD_JUMPS + 2

EncryptDeep(name, plaintext) ==
    LET o == group_encrypt(load_sender_key(name), plaintext)
    IN  /\ IterationAt(name, 1) < DeepIter
        /\ store' = store_sender_key(name, o)
        /\ sent' = IF o.res = Ok THEN sent \cup {Unwrap(o.out)} ELSE sent
        /\ last' = Call("encrypt", name, Some(plaintext), o)
        /\ UNCHANGED <<excl, thr, log>>

NextCache ==
    \/ \E n \in Senders : Create(n, <<U32(1, 2147483647), 2, 2>>)
    \/ \E n \in Recipients, skdm \in Distributed : Process(n, skdm)
    \/ \E n \in Senders : EncryptDeep(n, <<7>>)
    \/ \E n \in Recipients, skm \in sent : Decrypt(n, skm)

SpecCache == Init /\ [][NextCache]_vars

\* ------------------------------------------------------------------ claims
\* the store after a call's store_sender_key, if it made one
Put(st, name, o) ==
    IF IsSome(o.stored) THEN [st EXCEPT ![name] = o.stored] ELSE st

Rec(loaded) == IF IsSome(loaded) THEN Unwrap(loaded) ELSE new_empty

\* the plaintext a message was made from
PlaintextOf(skm) == skm.ciphertext.data

\* create on sender s, process of its result on recipient r, group_encrypt
\* of plaintext on s, group_decrypt of the result on r, starting from st
RoundTrip(st, s, r, draw, plaintext) ==
    LET c == create_sender_key_distribution_message(st[s], draw[1], draw[2], draw[3])
        st1 == Put(st, s, c)
        p == process_sender_key_distribution_message(Unwrap(c.out), st1[r])
        st2 == Put(st1, r, p)
        e == group_encrypt(st2[s], plaintext)
        st3 == Put(st2, s, e)
        d == group_decrypt(Unwrap(e.out), st3[r])
    IN  [enc |-> e, dec |-> d]

\* C1: from every reachable store, create on the sender, process of the
\* returned message on the recipient, then group_encrypt of any plaintext
\* (the empty one included) on the sender and group_decrypt of the returned
\* message on the recipient both succeed, and the decryption returns
\* exactly that plaintext.
C1_RoundTrip ==
    \A s \in Senders, r \in Recipients, draw \in Draws, plaintext \in Plaintexts :
        LET t == RoundTrip(store, s, r, draw, plaintext)
        IN  /\ t.enc.res = Ok
            /\ t.dec.res = Ok
            /\ t.dec.out = Some(plaintext)

\* a recipient has just decrypted a message the sender made from the
\* empty plaintext, and got the empty plaintext
C1_Witness ==
    /\ last.op = "decrypt" /\ last.res = Ok
    /\ Unwrap(last.in) \in sent
    /\ PlaintextOf(Unwrap(last.in)) = <<>>
    /\ last.out = Some(<<>>)

\* the state group_decrypt would locate for this message, as a sequence of
\* at most one state
LocatedState(loaded, skm) ==
    LET i == sender_key_state_for_keyid(Rec(loaded), skm.key_id)
    IN  IF i = 0 THEN <<>> ELSE <<Rec(loaded)[i]>>

\* every way to deliver, each once, some of the messages in msgs whose
\* iterations are consecutive
Orders(msgs) ==
    {q \in UNION {[1..n -> msgs] : n \in 1..Cardinality(msgs)} :
        /\ \A a, b \in 1..Len(q) : a # b => q[a] # q[b]
        /\ \A a, b \in 1..Len(q) : \A i \in q[a].iteration..q[b].iteration :
              \E c \in 1..Len(q) : q[c].iteration = i}

\* Decrypting order[k], order[k+1], ... one after the other, from the
\* record loaded: each succeeds with its own plaintext, up to the first
\* one (if any) that needs a forward gap above MAX_FORWARD_JUMPS or more
\* skipped keys than the cache has room for.
RECURSIVE DeliveredInOrder(_, _, _)
DeliveredInOrder(loaded, order, k) ==
    IF k > Len(order) THEN TRUE
    ELSE LET skm == order[k]
             state == Unwrap(LocatedState(loaded, skm))
             gap == skm.iteration - state.chain.iteration
             within == gap <= 0 \/ (/\ gap <= MAX_FORWARD_JUMPS
                                    /\ Len(state.keys) + gap <= MAX_MESSAGE_KEYS)
             d == group_decrypt(skm, loaded)
         IN  within => /\ d.res = Ok
                        /\ d.out = Some(PlaintextOf(skm))
                        /\ DeliveredInOrder(d.stored, order, k + 1)

\* the messages the state made from this distribution message can decrypt:
\* same id, signed by the key it names, at its iteration or later
MessagesFor(skdm) ==
    {m \in sent : /\ m.key_id = skdm.id
                  /\ verify_signature(m, skdm.signing_key)
                  /\ m.iteration >= skdm.iteration}

\* C2: when a recipient has just processed a distribution message of the
\* sender, any messages of that sender with consecutive iterations,
\* decrypted each once in any order, all succeed with the plaintext
\* encrypted at their iteration, as long as every forward gap is within
\* MAX_FORWARD_JUMPS and the skipped keys fit the cache.
C2_OutOfOrder ==
    (last.op = "process" /\ Unwrap(last.in) \in Distributed) =>
        \A order \in Orders(MessagesFor(Unwrap(last.in))) :
            DeliveredInOrder(store[last.name], order, 1)

\* a recipient has decrypted three messages of consecutive iterations under
\* one state, the last of them from the skipped-key cache
C2_Witness ==
    /\ last.op = "decrypt" /\ last.res = Ok
    /\ LET skm == Unwrap(last.in)
           state == Unwrap(LocatedState(store[last.name], skm))
       IN  /\ skm \in state.used
           /\ Cardinality(state.used) >= 3
           /\ \E m \in state.used : m.iteration > skm.iteration
           /\ \E m \in state.used : m.iteration < skm.iteration
           /\ last.out = Some(PlaintextOf(skm))

\* C3: a group_decrypt of a message that an earlier group_decrypt already
\* returned the plaintext of under the state it locates fails with
\* DuplicatedMessage(the state's chain-key iteration, the message's
\* iteration).
C3_Replay ==
    (/\ last.op = "decrypt"
     /\ LocatedState(last.before, Unwrap(last.in)) # <<>>
     /\ Unwrap(last.in) \in Unwrap(LocatedState(last.before, Unwrap(last.in))).used)
    => /\ last.res = "DuplicatedMessage"
       /\ last.exp = Unwrap(LocatedState(last.before, Unwrap(last.in))).chain.iteration
       /\ last.got = Unwrap(last.in).iteration

\* a message decrypted before under the state was given again, after the
\* state had moved on by further messages
C3_Witness ==
    /\ last.op = "decrypt" /\ last.res = "DuplicatedMessage"
    /\ LET state == Unwrap(LocatedState(last.before, Unwrap(last.in)))
       IN  /\ Unwrap(last.in) \in state.used
           /\ Cardinality(state.used) >= 2
           /\ last.exp > last.got + 1

\* <<key id, iteration>> of every message group_decrypt has returned a
\* plaintext for under the name of this record (a record keeps all its
\* states, and each state the messages decrypted under it)
Done(loaded) ==
    UNION {{<<m.key_id, m.iteration>> : m \in Rec(loaded)[i].used} :
           i \in 1..Len(Rec(loaded))}

\* C4: group_decrypt succeeds at most once for a pair (key id, iteration)
\* under one SenderKeyName, whatever create, process, group_encrypt and
\* group_decrypt calls come in between.
C4_SingleUse ==
    (last.op = "decrypt" /\ last.res = Ok) =>
        <<Unwrap(last.in).key_id, Unwrap(last.in).iteration>> \notin Done(last.before)

\* the last call was a group_decrypt of a message whose key id some state
\* has: that state (as it was when the call began) and the message
LastLocated == Unwrap(LocatedState(last.before, Unwrap(last.in)))
LastDecryptLocated ==
    /\ last.op = "decrypt"
    /\ LocatedState(last.before, Unwrap(last.in)) # <<>>

\* C5: group_decrypt of a validly signed message at an iteration not below
\* the state's chain-key iteration fails with InvalidMessage exactly when
\* the gap exceeds MAX_FORWARD_JUMPS, and then store_sender_key is not
\* called and the stored record (chain key and cache) is as before.
C5_ForwardJump ==
    (/\ LastDecryptLocated
     /\ verify_signature(Unwrap(last.in), LastLocated.pub)
     /\ LastLocated.chain.iteration <= Unwrap(last.in).iteration)
    => /\ last.res = "InvalidMessage" <=>
             Unwrap(last.in).iteration - LastLocated.chain.iteration
                 > MAX_FORWARD_JUMPS
       /\ last.res = "InvalidMessage" =>
             ~last.stored /\ store[last.name] = last.before

\* a validly signed message one iteration beyond the limit was refused
C5_Witness ==
    /\ LastDecryptLocated
    /\ verify_signature(Unwrap(last.in), LastLocated.pub)
    /\ Unwrap(last.in).iteration - LastLocated.chain.iteration
           = MAX_FORWARD_JUMPS + 1
    /\ last.res = "InvalidMessage"

\* C6: a message whose signature does not verify under the public key of
\* the state its key id locates makes group_decrypt fail with
\* SignatureValidationFailed at every iteration, with store_sender_key not
\* called and the stored record as before.
C6_SignatureFirst ==
    (LastDecryptLocated /\ ~verify_signature(Unwrap(last.in), LastLocated.pub))
    => /\ last.res = "SignatureValidationFailed"
       /\ ~last.stored
       /\ store[last.name] = last.before

\* a badly signed message at an iteration the state had already consumed
\* was refused for its signature
C6_Witness ==
    /\ LastDecryptLocated
    /\ ~verify_signature(Unwrap(last.in), LastLocated.pub)
    /\ \E m \in LastLocated.used : m.iteration = Unwrap(last.in).iteration
    /\ last.res = "SignatureValidationFailed"

\* C7: a group_encrypt or group_decrypt that returns an error has not
\* called store_sender_key, and the store holds under its name the record
\* it held when the call began.
C7_PersistOnSuccess ==
    (last.op \in {"encrypt", "decrypt"} /\ last.res # Ok)
    => ~last.stored /\ store[last.name] = last.before

\* the cipher failed after get_sender_key had stepped over skipped keys
C7_Witness ==
    /\ LastDecryptLocated
    /\ last.res = "InvalidCiphertext"
    /\ Unwrap(last.in).iteration > LastLocated.chain.iteration
    /\ store[last.name] = last.before

\* the messages in sent that the current state of this record signed
MadeBy(loaded) ==
    {m \in sent : /\ m.key_id = Rec(loaded)[1].id
                  /\ verify_signature(m, Rec(loaded)[1].pub)}

\* C8: a successful group_encrypt returns a message carrying the id of the
\* current state and the iteration its chain key had, and stores that
\* chain key advanced by exactly one step; so a sender's state at
\* iteration n has made n messages, one for each iteration 0 .. n-1.
C8_AdvanceByOne ==
    /\ (last.op = "encrypt" /\ last.res = Ok) =>
          LET was == Unwrap(last.before)[1]
              now == Unwrap(store[last.name])[1]
              skm == Unwrap(last.out)
          IN  /\ skm.iteration = was.chain.iteration
              /\ skm.key_id = was.id
              /\ now.chain = next(was.chain)
              /\ now.chain.iteration = was.chain.iteration + 1
    /\ \A s \in Senders : IsSome(store[s]) =>
          LET n == Unwrap(store[s])[1].chain.iteration
          IN  /\ \A k \in 0..(n - 1) :
                    Cardinality({m \in MadeBy(store[s]) : m.iteration = k}) = 1
              /\ \A m \in MadeBy(store[s]) : m.iteration < n

\* the third encryption in a row has succeeded
C8_Witness ==
    /\ last.op = "encrypt" /\ last.res = Ok
    /\ Unwrap(last.out).iteration = 2
    /\ Unwrap(store[last.name])[1].chain.iteration = 3

\* C10: group_encrypt on a record whose current state has no private
\* signing key (every state made by process has none) fails with
\* SenderKeySigningKeyMissing, returns no message and leaves the stored
\* record, its chain key included, as it was.
C10_SigningKeyMissing ==
    /\ last.op = "process" => ~IsSome(Unwrap(store[last.name])[1].priv)
    /\ (/\ last.op = "encrypt"
        /\ Rec(last.before) # <<>>
        /\ ~IsSome(Rec(last.before)[1].priv))
       => /\ last.res = "SenderKeySigningKeyMissing"
          /\ last.out = None
          /\ ~last.stored
          /\ store[last.name] = last.before

\* group_encrypt was refused on a recipient's record
C10_Witness ==
    /\ last.op = "encrypt"
    /\ last.res = "SenderKeySigningKeyMissing"
    /\ Rec(last.before) # <<>>
    /\ Unwrap(store[last.name])[1].chain.iteration
           = Rec(last.before)[1].chain.iteration

\* the message key a message was encrypted under
KeyOf(skm) == <<skm.ciphertext.key, skm.ciphertext.iv>>

\* C9: with one group_encrypt per name at a time, no two successful
\* group_encrypt calls use the same message key; without that, two calls on
\* one name that both loaded the record before either stored it both
\* succeed, with the same key id, iteration and message key, and each
\* leaves the stored chain key one step ahead of the one they loaded.
C9_Exclusion ==
    /\ excl =>
          \A e, f \in log : (e # f /\ e.res = Ok /\ f.res = Ok) =>
              /\ KeyOf(Unwrap(e.out)) # KeyOf(Unwrap(f.out))
              /\ <<Unwrap(e.out).key_id, Unwrap(e.out).iteration>>
                     # <<Unwrap(f.out).key_id, Unwrap(f.out).iteration>>
    /\ \A e, f \in log :
          (e # f /\ e.at = f.at /\ e.name = f.name
              /\ IsSome(e.loaded) /\ IsSome(f.loaded)) =>
              /\ e.res = Ok /\ f.res = Ok
              /\ Unwrap(e.out).key_id = Unwrap(f.out).key_id
              /\ Unwrap(e.out).iteration = Unwrap(f.out).iteration
              /\ KeyOf(Unwrap(e.out)) = KeyOf(Unwrap(f.out))
              /\ Unwrap(e.after)[1].chain = next(Unwrap(e.loaded)[1].chain)
              /\ Unwrap(f.after)[1].chain = next(Unwrap(e.loaded)[1].chain)

\* two interleaved calls have both finished, on different plaintexts under
\* one message key, and the store is one step past what they loaded
C9_Witness ==
    /\ ~excl
    /\ \E e, f \in log :
          /\ e # f /\ e.at = f.at /\ e.res = Ok /\ f.res = Ok
          /\ PlaintextOf(Unwrap(e.out)) # PlaintextOf(Unwrap(f.out))
          /\ KeyOf(Unwrap(e.out)) = KeyOf(Unwrap(f.out))
          /\ Unwrap(store[e.name])[1].chain = next(Unwrap(e.loaded)[1].chain)
          /\ \A u \in Threads : thr[u].pc = "idle"

\* C11: group_encrypt and group_decrypt on a name the store holds no record
\* for fail with InvalidSenderKeyId, and so does group_decrypt of a message
\* whose key id no state of the record has; store_sender_key is not called
\* and the store holds under the name what it held before (nothing, in the
\* first case).
C11_InvalidSenderKeyId ==
    /\ (last.op \in {"encrypt", "decrypt"} /\ last.before = None)
       => /\ last.res = "InvalidSenderKeyId"
          /\ ~last.stored
          /\ store[last.name] = None
    /\ (/\ last.op = "decrypt"
        /\ IsSome(last.before)
        /\ LocatedState(last.before, Unwrap(last.in)) = <<>>)
       => /\ last.res = "InvalidSenderKeyId"
          /\ ~last.stored
          /\ store[last.name] = last.before

\* a genuine message of the sender was refused by a recipient whose record
\* holds a state, but none with the message's key id
C11_Witness ==
    /\ last.op = "decrypt"
    /\ Unwrap(last.in) \in sent
    /\ Rec(last.before) # <<>>
    /\ LocatedState(last.before, Unwrap(last.in)) = <<>>
    /\ last.res = "InvalidSenderKeyId"
    /\ store[last.name] = last.before

\* the current state of the record matches the distribution message
Carries(record, skdm) ==
    /\ record[1].id = skdm.id
    /\ record[1].chain.iteration = skdm.iteration
    /\ record[1].chain.seed = skdm.chain_key
    /\ record[1].pub = skdm.signing_key

\* C12: the message create_sender_key_distribution_message returns for a
\* sender (whether it made the state or found it, at any iteration),
\* processed on a name the store holds no record for, is stored as a record
\* of one state with the emitted id, chain-key iteration and seed and
\* public signing key, and no private signing key; the message itself
\* carries those of the sender's current state.
C12_DistributionRoundTrip ==
    /\ \A s \in Senders, draw \in Draws :
          LET c == create_sender_key_distribution_message(
                       store[s], draw[1], draw[2], draw[3])
              skdm == Unwrap(c.out)
              p == process_sender_key_distribution_message(skdm, None)
          IN  /\ c.res = Ok /\ p.res = Ok
              /\ IsSome(p.stored)
              /\ Len(Unwrap(p.stored)) = 1
              /\ Carries(Unwrap(p.stored), skdm)
              /\ Unwrap(p.stored)[1].priv = None
              /\ Carries(Unwrap(Put(store, s, c)[s]), skdm)
    /\ (last.op = "process" /\ last.before = None) =>
          /\ last.res = Ok /\ last.stored
          /\ Len(Unwrap(store[last.name])) = 1
          /\ Carries(Unwrap(store[last.name]), Unwrap(last.in))
          /\ Unwrap(store[last.name])[1].priv = None

\* a recipient without a record has just processed what create returns
\* for a sender that has encrypted twice
C12_Witness ==
    /\ last.op = "process" /\ last.before = None
    /\ \E s \in Senders, draw \in Draws :
          /\ IsSome(store[s])
          /\ last.in = create_sender_key_distribution_message(
                           store[s], draw[1], draw[2], draw[3]).out
    /\ Unwrap(last.in).iteration = 2
    /\ Unwrap(store[last.name])[1].chain.iteration = 2
    /\ Unwrap(store[last.name])[1].priv = None

\* the state descends from the chain seed the message was encrypted under
SameChain(state, skm) == state.chain.seed.root = skm.ciphertext.key[2].root

\* the state can still produce the key of this iteration: at or ahead of
\* its chain key within the jump limit, or behind it and cached
InReach(state, iteration) ==
    \/ /\ iteration >= state.chain.iteration
       /\ iteration - state.chain.iteration <= MAX_FORWARD_JUMPS
    \/ /\ iteration < state.chain.iteration
       /\ KeyIndex(state, iteration) # 0

\* C13: process_sender_key_distribution_message keeps every state the
\* record had, in order, behind the new one; and a sender's message whose
\* key id locates a state that is not the current one (states with other
\* ids were added after it) decrypts to its plaintext as it would have
\* before they were added.
C13_MultiState ==
    /\ last.op = "process" =>
          /\ Len(Unwrap(store[last.name])) = Len(Rec(last.before)) + 1
          /\ Tail(Unwrap(store[last.name])) = Rec(last.before)
    /\ (/\ LastDecryptLocated
        /\ sender_key_state_for_keyid(Rec(last.before), Unwrap(last.in).key_id) > 1
        /\ Unwrap(last.in) \in sent
        /\ verify_signature(Unwrap(last.in), LastLocated.pub)
        /\ SameChain(LastLocated, Unwrap(last.in))
        /\ InReach(LastLocated, Unwrap(last.in).iteration))
       => /\ last.res = Ok
          /\ last.out = Some(PlaintextOf(Unwrap(last.in)))

\* a message under the sender's id was decrypted by a recipient whose
\* current state has another id, added after the sender's
C13_Witness ==
    /\ LastDecryptLocated
    /\ last.res = Ok
    /\ Len(Rec(last.before)) = 2
    /\ Rec(last.before)[1].id # Unwrap(last.in).key_id
    /\ Rec(last.before)[2].id = Unwrap(last.in).key_id
    /\ Unwrap(last.in).iteration >= 1
    /\ last.out = Some(PlaintextOf(Unwrap(last.in)))

\* the last call was a create_sender_key_distribution_message that found
\* no state and made one
LastCreateFresh == last.op = "create" /\ Rec(last.before) = <<>>

\* C14 as claimed: on an empty or absent record create stores a state whose
\* id is in 1 .. 2^31 - 1, at iteration 0, holding the private key.
C14_PositiveId ==
    LastCreateFresh =>
        LET state == Unwrap(store[last.name])[1]
        IN  /\ state.id >= 1 /\ state.id <= 2147483647
            /\ state.chain.iteration = 0
            /\ IsSome(state.priv)

\* C14: on an empty or absent record create stores a record of one state
\* whose id is in 0 .. 2^31 - 1 for every u32 the random source returns,
\* whose chain key is at iteration 0 on the drawn seed, and which holds the
\* private key of the drawn pair; the message returned carries that id.
C14_Id31Bit ==
    /\ LastCreateFresh =>
          LET state == Unwrap(store[last.name])[1]
              draw == Unwrap(last.in)
          IN  /\ last.res = Ok /\ last.stored
              /\ Len(Unwrap(store[last.name])) = 1
              /\ state.id >= 0 /\ state.id <= 2147483647
              /\ state.chain.iteration = 0
              /\ state.chain.seed = [root |-> draw[2], step |-> 0]
              /\ state.priv = Some(private_key(draw[3]))
              /\ state.pub = public_key(draw[3])
              /\ Unwrap(last.out).id = state.id
    /\ \A draw \in Draws :
          LET id == Unwrap(create_sender_key_distribution_message(
                               None, draw[1], draw[2], draw[3]).out).id
          IN  id >= 0 /\ id <= 2147483647

\* create made a state from the u32 with every bit set: the id is 2^31 - 1
C14_Witness ==
    /\ LastCreateFresh
    /\ Unwrap(last.in)[1] = U32(1, 2147483647)
    /\ Unwrap(store[last.name])[1].id = 2147483647
    /\ IsSome(Unwrap(store[last.name])[1].priv)

\* C15: create_sender_key_distribution_message on a record that has a
\* state does not call store_sender_key and leaves the record as it was;
\* it returns the current state's id and public key and the chain key's
\* current iteration and seed, whatever the random source would yield, so
\* calling it again returns the same message; and the iteration it carries
\* is the number of messages the state has encrypted.
C15_CreateOnNonEmpty ==
    (last.op = "create" /\ Rec(last.before) # <<>>) =>
        LET state == Unwrap(last.before)[1]
        IN  /\ last.res = Ok
            /\ ~last.stored
            /\ store[last.name] = last.before
            /\ last.out = Some(SenderKeyDistributionMessage(
                                   state.id, state.chain.iteration,
                                   state.chain.seed, state.pub))
            /\ \A draw \in Draws :
                  LET again == create_sender_key_distribution_message(
                                   store[last.name], draw[1], draw[2], draw[3])
                  IN  /\ again.res = Ok
                      /\ again.out = last.out
                      /\ again.stored = None
            /\ Unwrap(last.out).iteration = Cardinality(MadeBy(last.before))

\* create was called, with another draw than the one the state was made
\* from, on a sender that had encrypted twice
C15_Witness ==
    /\ last.op = "create" /\ Rec(last.before) # <<>>
    /\ Unwrap(last.before)[1].pub # public_key(Unwrap(last.in)[3])
    /\ Unwrap(last.out).iteration = 2
    /\ Cardinality(MadeBy(last.before)) = 2
    /\ ~last.stored

\* the message key of iteration i >= the chain key's, on the state's chain
KeyAt(state, i) ==
    [iteration |-> i,
     from |-> [root |-> state.chain.seed.root,
               step |-> state.chain.seed.step + (i - state.chain.iteration)]]

\* the keys of the iterations from the chain key's up to target - 1, in
\* ascending order
Skipped(state, target) ==
    [k \in 1..(target - state.chain.iteration) |->
        KeyAt(state, state.chain.iteration + k - 1)]

\* the last n entries of q (all of q if it has no more)
LastN(q, n) == IF Len(q) > n THEN SubSeq(q, Len(q) - n + 1, Len(q)) ELSE q

\* iterations of the messages decrypted under the state
UsedIterations(state) == {m.iteration : m \in state.used}

\* C16: no state of any stored record ever caches more than
\* MAX_MESSAGE_KEYS message keys; a successful group_decrypt that skips
\* ahead leaves in the cache the newest MAX_MESSAGE_KEYS of the keys it
\* held and the keys it skipped (the oldest are evicted); and a validly
\* signed message for an iteration the state skipped and no longer caches
\* fails with DuplicatedMessage.
C16_BoundedCache ==
    /\ \A n \in Names : \A i \in 1..Len(Rec(store[n])) :
          Len(Rec(store[n])[i].keys) <= MAX_MESSAGE_KEYS
    /\ (/\ LastDecryptLocated
        /\ last.res = Ok
        /\ Unwrap(last.in).iteration >= LastLocated.chain.iteration)
       => Unwrap(LocatedState(store[last.name], Unwrap(last.in))).keys
              = LastN(LastLocated.keys
                          \o Skipped(LastLocated, Unwrap(last.in).iteration),
                      MAX_MESSAGE_KEYS)
    /\ (/\ LastDecryptLocated
        /\ verify_signature(Unwrap(last.in), LastLocated.pub)
        /\ Unwrap(last.in).iteration >= LastLocated.since
        /\ Unwrap(last.in).iteration < LastLocated.chain.iteration
        /\ Unwrap(last.in).iteration \notin UsedIterations(LastLocated)
        /\ KeyIndex(LastLocated, Unwrap(last.in).iteration) = 0)
       => /\ last.res = "DuplicatedMessage"
          /\ store[last.name] = last.before

\* a message never decrypted, whose key the state had cached and then
\* evicted from a full cache, was refused as a duplicate
C16_Witness ==
    /\ LastDecryptLocated
    /\ Unwrap(last.in) \in sent
    /\ Unwrap(last.in).iteration >= LastLocated.since
    /\ Unwrap(last.in).iteration \notin UsedIterations(LastLocated)
    /\ Len(LastLocated.keys) = MAX_MESSAGE_KEYS
    /\ last.res = "DuplicatedMessage"

\* q without its entry at index i
Without(q, i) == SubSeq(q, 1, i - 1) \o SubSeq(q, i + 1, Len(q))

\* C17: for every state of every stored record and every target iteration,
\* get_sender_key with cur <= target <= cur + MAX_FORWARD_JUMPS returns the
\* key of iteration target, leaves the chain key at iteration target + 1 on
\* the same chain, and has inserted into the cache the keys of cur ..
\* target - 1 in that order and no other (none when target = cur), so the
\* target's key is not cached; with target < cur and its key cached, it
\* returns that key, removes that one entry and leaves the chain key and
\* the other entries as they were.
C17_KeyResolution ==
    \A n \in Names : \A i \in 1..Len(Rec(store[n])) : \A target \in 0..DeepIter :
        LET state == Rec(store[n])[i]
            cur == state.chain.iteration
            r == get_sender_key(state, target)
        IN  /\ (cur <= target /\ target <= cur + MAX_FORWARD_JUMPS) =>
                  /\ r.res = Ok
                  /\ r.key = Some(KeyAt(state, target))
                  /\ r.state.chain.iteration = target + 1
                  /\ r.state.chain.seed =
                         [root |-> state.chain.seed.root,
                          step |-> state.chain.seed.step + (target - cur) + 1]
                  /\ r.state.keys = LastN(state.keys \o Skipped(state, target),
                                          MAX_MESSAGE_KEYS)
                  /\ (target = cur => r.state.keys = state.keys)
                  /\ KeyIndex(r.state, target) = 0
                  /\ r.state = [state EXCEPT !.chain = r.state.chain,
                                             !.keys = r.state.keys]
            /\ (target < cur /\ KeyIndex(state, target) # 0) =>
                  /\ r.res = Ok
                  /\ r.key = Some(state.keys[KeyIndex(state, target)])
                  /\ Unwrap(r.key).iteration = target
                  /\ r.state.chain = state.chain
                  /\ r.state.keys = Without(state.keys, KeyIndex(state, target))
                  /\ r.state = [state EXCEPT !.keys = r.state.keys]

\* a decrypt has jumped MAX_FORWARD_JUMPS ahead of a state that had already
\* moved: the store holds the state one past the target with the skipped
\* keys cached
C17_Witness ==
    /\ LastDecryptLocated
    /\ last.res = Ok
    /\ LastLocated.chain.iteration >= 1
    /\ Unwrap(last.in).iteration = LastLocated.chain.iteration + MAX_FORWARD_JUMPS
    /\ LET now == Unwrap(LocatedState(store[last.name], Unwrap(last.in)))
       IN  /\ now.chain.iteration = Unwrap(last.in).iteration + 1
           /\ KeyIndex(now, Unwrap(last.in).iteration - 1) # 0
           /\ KeyIndex(now, Unwrap(last.in).iteration) = 0

\* C18: in every state of every stored record, each cached message key is
\* of an iteration below the chain key's, no two cached keys are of the
\* same iteration, and no cached key is of an iteration whose message
\* group_decrypt has returned the plaintext of under that state.
C18_CacheInvariants ==
    \A n \in Names : \A i \in 1..Len(Rec(store[n])) :
        LET state == Rec(store[n])[i]
        IN  /\ \A k \in 1..Len(state.keys) :
                  /\ state.keys[k].iteration < state.chain.iteration
                  /\ state.keys[k].iteration \notin UsedIterations(state)
            /\ \A k, l \in 1..Len(state.keys) :
                  k # l => state.keys[k].iteration # state.keys[l].iteration

\* a state caches two keys and has returned the message of an iteration
\* below the first and of one above the second
C18_Witness ==
    \E n \in Recipients : \E i \in 1..Len(Rec(store[n])) :
        LET state == Rec(store[n])[i]
        IN  /\ Len(state.keys) = 2
            /\ Cardinality(UsedIterations(state)) >= 2
            /\ \E u \in UsedIterations(state) : u < state.keys[1].iteration
            /\ \E u \in UsedIterations(state) : u > state.keys[2].iteration

\* the last call was a group_decrypt of a message the sender made, by a
\* recipient whose record is one state, made from a distribution message
\* of that sender
LastDecryptBySoleState ==
    /\ LastDecryptLocated
    /\ Len(Rec(last.before)) = 1
    /\ Unwrap(last.in) \in sent
    /\ verify_signature(Unwrap(last.in), LastLocated.pub)
    /\ SameChain(LastLocated, Unwrap(last.in))

\* C19: a recipient whose only state was made from a distribution message
\* carrying iteration n fails with DuplicatedMessage, storing nothing, on
\* every message of the sender below iteration n, at any time; it decrypts
\* to their plaintext the messages at iteration n or later that are within
\* MAX_FORWARD_JUMPS of its chain key or cached, and right after processing
\* the distribution message those are the messages n .. n + MAX_FORWARD_JUMPS.
C19_LateJoiner ==
    /\ LastDecryptBySoleState =>
          /\ Unwrap(last.in).iteration < LastLocated.since =>
                /\ last.res = "DuplicatedMessage"
                /\ ~last.stored
                /\ store[last.name] = last.before
          /\ (/\ Unwrap(last.in).iteration >= LastLocated.since
              /\ InReach(LastLocated, Unwrap(last.in).iteration)) =>
                /\ last.res = Ok
                /\ last.out = Some(PlaintextOf(Unwrap(last.in)))
    /\ (/\ last.op = "process" /\ last.before = None
        /\ Unwrap(last.in) \in Distributed) =>
          \A m \in sent :
              (m.key_id = Unwrap(last.in).id
                  /\ verify_signature(m, Unwrap(last.in).signing_key)) =>
                  LET d == group_decrypt(m, store[last.name])
                      n == Unwrap(last.in).iteration
                  IN  /\ m.iteration < n =>
                            /\ d.res = "DuplicatedMessage"
                            /\ d.exp = n /\ d.got = m.iteration
                            /\ d.stored = None
                      /\ (m.iteration >= n /\ m.iteration <= n + MAX_FORWARD_JUMPS) =>
                            /\ d.res = Ok
                            /\ d.out = Some(PlaintextOf(m))

\* a recipient that joined at iteration 2 and has decrypted the message of
\* iteration 2 was refused the sender's message of iteration 1
C19_Witness ==
    /\ LastDecryptBySoleState
    /\ LastLocated.since = 2
    /\ 2 \in UsedIterations(LastLocated)
    /\ Unwrap(last.in).iteration = 1
    /\ last.res = "DuplicatedMessage"
    /\ store[last.name] = last.before

\* C20: a step that is a successful group_decrypt changes, in the whole
\* store, only the chain key and the skipped-key cache (and the history) of
\* the state its message's key id locates; a step that is a successful
\* group_encrypt changes only the chain key of the current state. The
\* number and order of the states, every other state, every id and signing
\* key, and the record of every other name stay as they were.
C20_Frame ==
    [][ /\ (last'.op = "decrypt" /\ last'.res = Ok) =>
              LET was == Unwrap(store[last'.name])
                  now == Unwrap(store'[last'.name])
                  i == sender_key_state_for_keyid(was, Unwrap(last'.in).key_id)
              IN  /\ Len(now) = Len(was)
                  /\ \A j \in 1..Len(was) : j # i => now[j] = was[j]
                  /\ now[i] = [was[i] EXCEPT !.chain = now[i].chain,
                                             !.keys = now[i].keys,
                                             !.used = now[i].used]
                  /\ \A n \in Names : n # last'.name => store'[n] = store[n]
        /\ (last'.op = "encrypt" /\ last'.res = Ok) =>
              LET was == Unwrap(store[last'.name])
                  now == Unwrap(store'[last'.name])
              IN  /\ Len(now) = Len(was)
                  /\ \A j \in 2..Len(was) : now[j] = was[j]
                  /\ now[1] = [was[1] EXCEPT !.chain = now[1].chain]
                  /\ \A n \in Names : n # last'.name => store'[n] = store[n]
      ]_vars

\* a message was decrypted under the second state of a record: the first
\* state is as it was, the second has moved on
C20_Witness ==
    /\ LastDecryptLocated
    /\ last.res = Ok
    /\ Len(Rec(last.before)) = 2
    /\ sender_key_state_for_keyid(Rec(last.before), Unwrap(last.in).key_id) = 2
    /\ Unwrap(store[last.name])[1] = Rec(last.before)[1]
    /\ Unwrap(store[last.name])[2].chain # Rec(last.before)[2].chain
    /\ Unwrap(store[last.name])[2].pub = Rec(last.before)[2].pub

====
